---- MODULE Spec2Model ----
(***************************************************************************)
(* A model of the App Connector engine (package appc, AppConnector):       *)
(* the domain map, the wildcard list and the operator route baseline       *)
(* behind one mutex, the execution queue that serialises configuration     *)
(* updates, the DNS response observer that runs on the caller's thread,    *)
(* and the RouteAdvertiser collaborator (advertised routes and the         *)
(* persisted route info).                                                  *)
(***************************************************************************)
EXTENDS Integers, Sequences, FiniteSets, TLC

(***************************************************************************)
(* Bounds of the model.                                                    *)
(***************************************************************************)
\* Number of public API calls (UpdateDomains, UpdateDomainsAndRoutes,
\* ObserveDNSResponse, Wait) a behaviour makes.
MaxCalls == 3
\* Number of collaborator calls (AdvertiseRoute, UnadvertiseRoute) that
\* return an error in a behaviour.
MaxFailures == 1
\* Width of an address in bits (a.BitLen() of the source, scaled down).
AddrBits == 2

(***************************************************************************)
(* Strings.  A string is a sequence of one-character strings, so that      *)
(* strings.ToLower, strings.HasPrefix, strings.TrimSuffix and slicing are  *)
(* computed character by character.                                        *)
(***************************************************************************)
ToLowerChar(c) ==
    CASE c = "A" -> "a"
      [] c = "B" -> "b"
      [] c = "C" -> "c"
      [] c = "D" -> "d"
      [] OTHER -> c

ToLower(s) == [i \in 1..Len(s) |-> ToLowerChar(s[i])]

StrHasPrefix(s, p) ==
    /\ Len(s) >= Len(p)
    /\ SubSeq(s, 1, Len(p)) = p

StrHasSuffix(s, p) ==
    /\ Len(s) >= Len(p)
    /\ SubSeq(s, Len(s) - Len(p) + 1, Len(s)) = p

TrimSuffix(s, p) ==
    IF StrHasSuffix(s, p) THEN SubSeq(s, 1, Len(s) - Len(p)) ELSE s

TrimPrefix(s, p) ==
    IF StrHasPrefix(s, p) THEN SubSeq(s, Len(p) + 1, Len(s)) ELSE s

Dot == <<".">>
WildcardMarker == <<"*", ".">>

\* dnsname.HasSuffix(name, suffix): name ends with the component(s) in
\* suffix, ignoring trailing or leading dots; false for the empty suffix.
DnsHasSuffix(name, suffix) ==
    LET n == TrimSuffix(name, Dot)
        sfx == TrimPrefix(TrimSuffix(suffix, Dot), Dot)
        nameBase == TrimSuffix(n, sfx)
    IN  /\ Len(nameBase) < Len(n)
        /\ StrHasSuffix(nameBase, Dot)

\* strings.TrimSuffix(strings.ToLower(name.String()), ".")
NormalizeName(s) == TrimSuffix(ToLower(s), Dot)

(***************************************************************************)
(* Addresses and prefixes (net/netip).  An address is a number of AddrBits *)
(* bits, a prefix a record of an address and a length.                     *)
(***************************************************************************)
RECURSIVE Pow2(_)
Pow2(n) == IF n = 0 THEN 1 ELSE 2 * Pow2(n - 1)

BitLen(a) == AddrBits

PrefixFrom(a, bits) == [addr |-> a, bits |-> bits]

\* netip.Prefix.Contains: the leading p.bits bits of a and of p.addr agree.
PrefixContains(p, a) ==
    /\ p.bits >= 0
    /\ p.bits <= AddrBits
    /\ (a \div Pow2(AddrBits - p.bits)) = (p.addr \div Pow2(AddrBits - p.bits))

IsSingleIP(p) == p.bits = AddrBits

SingleRoute(a) == PrefixFrom(a, BitLen(a))

\* compareAddr: netip.Addr.Compare
compareAddr(l, r) == IF l < r THEN -1 ELSE IF l > r THEN 1 ELSE 0

(***************************************************************************)
(* Slices and maps.  A Go map is a function on the set of its keys; a nil  *)
(* slice and an empty slice are both the empty sequence.                   *)
(***************************************************************************)
MapGet(m, k) == IF k \in DOMAIN m THEN m[k] ELSE <<>>

MapPut(m, k, v) == [x \in (DOMAIN m) \cup {k} |-> IF x = k THEN v ELSE m[x]]

MapDelete(m, k) == [x \in (DOMAIN m) \ {k} |-> m[x]]

EmptyMap == [x \in {} |-> <<>>]

SeqToSet(s) == {s[i] : i \in 1..Len(s)}

SliceContains(s, x) == \E i \in 1..Len(s) : s[i] = x

\* slices.BinarySearchFunc: the lower-bound search of the standard library,
\* on indices 0..n-1 (x[h+1] is the element at Go index h).
RECURSIVE BinarySearchLoop(_, _, _, _)
BinarySearchLoop(x, target, i, j) ==
    IF i < j
      THEN LET h == (i + j) \div 2
           IN  IF compareAddr(x[h + 1], target) < 0
                 THEN BinarySearchLoop(x, target, h + 1, j)
                 ELSE BinarySearchLoop(x, target, i, h)
      ELSE i

BinarySearchFunc(x, target) ==
    LET i == BinarySearchLoop(x, target, 0, Len(x))
    IN  [ind |-> i,
         ok |-> i < Len(x) /\ compareAddr(x[i + 1], target) = 0]

\* slices.SortFunc with compareAddr: insertion of each element in turn.
RECURSIVE SortedInsert(_, _)
SortedInsert(s, a) ==
    IF s = <<>> THEN <<a>>
    ELSE IF compareAddr(a, Head(s)) < 0 THEN <<a>> \o s
    ELSE <<Head(s)>> \o SortedInsert(Tail(s), a)

RECURSIVE SortFunc(_)
SortFunc(s) ==
    IF s = <<>> THEN <<>>
    ELSE SortedInsert(SortFunc(SubSeq(s, 1, Len(s) - 1)), s[Len(s)])

\* slices.Delete(s, i, i+1) with the Go index i.
SliceDelete(s, i) == SubSeq(s, 1, i) \o SubSeq(s, i + 2, Len(s))

(***************************************************************************)
(* The domain address lists (hasDomainAddrLocked, addDomainAddrLocked,     *)
(* deleteDomainAddrLocked), as functions of the domain map.                *)
(***************************************************************************)
hasDomainAddrLocked(doms, domain, addr) ==
    BinarySearchFunc(MapGet(doms, domain), addr).ok

\* An insertion that appends and does not sort.
addDomainAddrAppendOnly(doms, domain, addr) ==
    MapPut(doms, domain, Append(MapGet(doms, domain), addr))

addDomainAddrLocked(doms, domain, addr) ==
    MapPut(doms, domain, SortFunc(Append(MapGet(doms, domain), addr)))

deleteDomainAddrLocked(doms, domain, addr) ==
    LET r == BinarySearchFunc(MapGet(doms, domain), addr)
    IN  IF ~r.ok THEN doms
        ELSE MapPut(doms, domain,
                    SortFunc(SliceDelete(MapGet(doms, domain), r.ind)))

(***************************************************************************)
(* The persisted route info (ipn.RouteInfo): the operator prefixes (Corp)  *)
(* and, per domain, the discovered-route record (ipn.DatedRoute), which    *)
(* may be a nil pointer.                                                   *)
(***************************************************************************)
NilDatedRoute == [isNil |-> TRUE, routes |-> {}]

DatedRouteOf(rs) == [isNil |-> FALSE, routes |-> rs]

DiscoveredGet(disc, d) == IF d \in DOMAIN disc THEN disc[d] ELSE NilDatedRoute

EmptyRouteInfo == [Corp |-> <<>>, Discovered |-> [x \in {} |-> NilDatedRoute]]

\* RouteInfo.UpdateRoutesInDiscoveredForDomain: the routes are recorded
\* (with the current time) in the domain's record, created when missing.
UpdateRoutesInDiscoveredForDomain(disc, domain, routes) ==
    MapPut(disc, domain,
           DatedRouteOf(DiscoveredGet(disc, domain).routes \cup SeqToSet(routes)))

\* RouteInfo.OutDatedRoutesInDiscoveredForDomain: the routes of the domain's
\* record that the latest classification did not refresh.
OutDatedRoutesInDiscoveredForDomain(disc, domain, refreshed) ==
    DiscoveredGet(disc, domain).routes \ SeqToSet(refreshed)

\* A set of prefixes as a slice, in increasing (addr, bits) order.
RECURSIVE SetToSortedSeq(_)
SetToSortedSeq(S) ==
    IF S = {} THEN <<>>
    ELSE LET m == CHOOSE x \in S : \A y \in S :
                      x.addr < y.addr \/ (x.addr = y.addr /\ x.bits <= y.bits)
         IN  <<m>> \o SetToSortedSeq(S \ {m})

(***************************************************************************)
(* updateDomains, as a function of the names and of the previous domain    *)
(* map and discovered-route records.                                       *)
(***************************************************************************)
\* The loop over the names (lines 188-201): one iteration per name.
RECURSIVE UpdateDomainsLoop(_, _, _)
UpdateDomainsLoop(names, i, st) ==
    IF i > Len(names) THEN st
    ELSE LET d == ToLower(names[i])
         IN  IF Len(d) = 0
               THEN UpdateDomainsLoop(names, i + 1, st)
             ELSE IF StrHasPrefix(d, WildcardMarker)
               THEN UpdateDomainsLoop(names, i + 1,
                        [st EXCEPT !.wildcards =
                             Append(@, SubSeq(d, 3, Len(d)))])
             ELSE UpdateDomainsLoop(names, i + 1,
                        [st EXCEPT
                           !.domains = MapPut(@, d, MapGet(st.oldDomains, d)),
                           !.discovered =
                               MapPut(@, d, DiscoveredGet(st.oldDiscovered, d)),
                           !.oldDomains = MapDelete(@, d),
                           !.oldDiscovered = MapDelete(@, d)])

MatchesWildcard(d, wcs) == \E i \in 1..Len(wcs) : DnsHasSuffix(d, wcs[i])

\* A carry-forward that keeps no domain of the previous state.
CarryNothing(new, old, wcs) == new

\* The carry-forward of still-live wildcard matches (lines 203-220).
CarryWildcards(new, old, wcs) ==
    LET kept == {d \in DOMAIN old : MatchesWildcard(d, wcs)}
    IN  [d \in (DOMAIN new) \cup kept |->
            IF d \in kept THEN old[d] ELSE new[d]]

\* A replacement that appends to the previous wildcard list instead of
\* truncating it first.
updateDomainsAppend(names, oldDomains, oldWildcards, oldDiscovered) ==
    LET st == UpdateDomainsLoop(names, 1,
                  [domains |-> EmptyMap,
                   discovered |-> EmptyRouteInfo.Discovered,
                   wildcards |-> oldWildcards,
                   oldDomains |-> oldDomains,
                   oldDiscovered |-> oldDiscovered])
    IN  [domains |-> CarryWildcards(st.domains, st.oldDomains, st.wildcards),
         wildcards |-> st.wildcards,
         discovered |->
             CarryWildcards(st.discovered, st.oldDiscovered, st.wildcards)]

updateDomainsResult(names, oldDomains, oldWildcards, oldDiscovered) ==
    LET st == UpdateDomainsLoop(names, 1,
                  [domains |-> EmptyMap,
                   discovered |-> EmptyRouteInfo.Discovered,
                   wildcards |-> SubSeq(oldWildcards, 1, 0),
                   oldDomains |-> oldDomains,
                   oldDiscovered |-> oldDiscovered])
    IN  [domains |-> CarryWildcards(st.domains, st.oldDomains, st.wildcards),
         wildcards |-> st.wildcards,
         discovered |->
             CarryWildcards(st.discovered, st.oldDiscovered, st.wildcards)]

(***************************************************************************)
(* updateRoutes: the choice of the subsumed single-address routes (lines   *)
(* 258-271).  For each route the scan stops at the first address found;    *)
(* the domain map is ranged over in an unspecified order, so the address   *)
(* found is the first matching address of any domain that has one.         *)
(***************************************************************************)
Subsumes(r, a) == PrefixContains(r, a) /\ PrefixFrom(a, BitLen(a)) # r

FirstSubsumed(r, addrs) ==
    LET i == CHOOSE k \in 1..Len(addrs) :
                 /\ Subsumes(r, addrs[k])
                 /\ \A j \in 1..(k - 1) : ~Subsumes(r, addrs[j])
    IN  PrefixFrom(addrs[i], BitLen(addrs[i]))

SubsumedCandidates(r, doms) ==
    {FirstSubsumed(r, doms[d]) :
        d \in {x \in DOMAIN doms : \E k \in 1..Len(doms[x]) : Subsumes(r, doms[x][k])}}

RECURSIVE SubsumedChoices(_, _)
SubsumedChoices(routes, doms) ==
    IF routes = <<>> THEN {<<>>}
    ELSE LET c == SubsumedCandidates(Head(routes), doms)
             rest == SubsumedChoices(Tail(routes), doms)
         IN  IF c = {} THEN rest
             ELSE {<<p>> \o t : p \in c, t \in rest}

\* The prefixes of the persisted operator set that the new set drops
\* (lines 241-247).
StaleCorp(oldCorp, routes) ==
    SelectSeq(oldCorp, LAMBDA ipp : ~SliceContains(routes, ipp))

(***************************************************************************)
(* The inputs of the behaviours.                                           *)
(***************************************************************************)
Name_ac == <<"a", ".", "c">>
Name_Ac == <<"A", ".", "c">>
Name_star_c == <<"*", ".", "c">>
Name_empty == <<>>

\* The name lists of UpdateDomains and UpdateDomainsAndRoutes.
DomainLists ==
    { <<Name_ac>>,
      <<Name_star_c>>,
      <<Name_Ac, Name_empty, Name_ac>>,
      <<>> }

\* An operator prefix that holds the addresses 0 and 1, and one that is
\* exactly the single address 2.
WidePrefix == PrefixFrom(0, AddrBits - 1)

SinglePrefix == PrefixFrom(2, AddrBits)

\* The prefix lists of UpdateDomainsAndRoutes: the last two hold the same
\* prefixes in a different order.
RouteLists ==
    { <<>>,
      <<WidePrefix>>,
      <<WidePrefix, SinglePrefix>>,
      <<SinglePrefix, WidePrefix>> }

Configs ==
    { <<<<Name_ac>>, r>> : r \in RouteLists } \cup
        { <<<<Name_star_c>>, <<WidePrefix>>>>, <<<<Name_star_c>>, <<>>>> }

\* A DNS message: whether its header and question section parse, and its
\* answer records.  A record: whether its header and its body parse, its
\* class and type, its owner name (as Name.String() gives it, with the
\* trailing dot), and its data (an address, or a CNAME target).
RecA(name, a) ==
    [hdrOk |-> TRUE, bodyOk |-> TRUE, class |-> "INET", type |-> "A",
     name |-> name, addr |-> a, cname |-> <<>>]

RecCNAME(name, target) ==
    [hdrOk |-> TRUE, bodyOk |-> TRUE, class |-> "INET", type |-> "CNAME",
     name |-> name, addr |-> 0, cname |-> target]

Message(answers) == [startOk |-> TRUE, questionsOk |-> TRUE, answers |-> answers]

Fqdn(n) == n \o Dot

Name_bc == <<"b", ".", "c">>

\* The well-formed messages: one address; three addresses of one owner, not
\* in increasing order; an owner that carries the wildcard marker; an owner
\* that normalizes to the empty name; a cycle of aliases; an alias a.c of an
\* unrouted target q; an unrouted alias p of a target b.c.
WellFormedMessages ==
    { Message(<<RecA(Fqdn(Name_ac), 2)>>),
      Message(<<RecA(Fqdn(Name_Ac), 1), RecA(Fqdn(Name_Ac), 2),
                RecA(Fqdn(Name_Ac), 0)>>),
      Message(<<RecA(Fqdn(Name_star_c), 2)>>),
      Message(<<RecA(Dot, 2)>>),
      Message(<<RecCNAME(<<"p", ".">>, <<"q", ".">>),
                RecCNAME(<<"q", ".">>, <<"p", ".">>),
                RecA(<<"p", ".">>, 2)>>),
      Message(<<RecCNAME(Fqdn(Name_ac), <<"q", ".">>),
                RecA(<<"q", ".">>, 2)>>),
      Message(<<RecCNAME(<<"p", ".">>, Fqdn(Name_bc)),
                RecA(Fqdn(Name_bc), 2)>>) }

\* The malformed messages: the header does not parse; the question section
\* does not parse; after a well-formed record, a record whose header does
\* not parse; after a well-formed record, one whose body does not parse.
MalformedMessages ==
    { [startOk |-> FALSE, questionsOk |-> TRUE,
       answers |-> <<RecA(Fqdn(Name_ac), 2)>>],
      [startOk |-> TRUE, questionsOk |-> FALSE,
       answers |-> <<RecA(Fqdn(Name_ac), 2)>>],
      Message(<<RecA(Fqdn(Name_ac), 2),
                [RecA(Fqdn(Name_ac), 1) EXCEPT !.hdrOk = FALSE]>>),
      Message(<<RecA(Fqdn(Name_ac), 2),
                [RecA(Fqdn(Name_ac), 1) EXCEPT !.bodyOk = FALSE]>>) }

Messages == WellFormedMessages \cup MalformedMessages

NoMessage == [startOk |-> FALSE, questionsOk |-> FALSE, answers |-> <<>>]

(***************************************************************************)
(* Go slices and maps as the caller of DomainRoutes sees them: a value     *)
(* and the storage behind it ("engine" for the storage of e.domains,       *)
(* "fresh" for storage allocated for the caller, "nil" for none).          *)
(***************************************************************************)
NilSlice == [addrs |-> <<>>, backing |-> "nil", cap |-> 0]

\* append(dst, v...): in place when the capacity of dst allows it, else in
\* newly allocated storage.
AppendSlice(dst, v) ==
    IF Len(dst.addrs) + Len(v) <= dst.cap
      THEN [dst EXCEPT !.addrs = @ \o v]
      ELSE [addrs |-> dst.addrs \o v, backing |-> "fresh",
            cap |-> Len(dst.addrs) + Len(v)]

\* A DomainRoutes that returns the engine's map itself.
DomainRoutesShared(doms) ==
    [taken |-> TRUE, backing |-> "engine",
     m |-> [k \in DOMAIN doms |->
               [addrs |-> doms[k], backing |-> "engine", cap |-> Len(doms[k])]]]

\* DomainRoutes (lines 295-300): a new map, and for each key the engine's
\* addresses appended to the new map's zero value for that key.
DomainRoutesResult(doms) ==
    [taken |-> TRUE, backing |-> "fresh",
     m |-> [k \in DOMAIN doms |-> AppendSlice(NilSlice, doms[k])]]

NoCopy == [taken |-> FALSE, backing |-> "nil", m |-> [k \in {} |-> NilSlice]]

\* The address a caller writes into a slice of its copy.
CallerAddr == Pow2(AddrBits) - 1

(***************************************************************************)
(* Tasks of the execution queue.                                           *)
(***************************************************************************)
Task(kind, names, routes, domain, id) ==
    [kind |-> kind, names |-> names, routes |-> routes, domain |-> domain,
     id |-> id]

NoTask == Task("none", <<>>, <<>>, <<>>, 0)

\* A collaborator call, as the log of a critical section records it.
Call(name, routes, ok) == [call |-> name, routes |-> routes, ok |-> ok]

(***************************************************************************)
(* The state.                                                              *)
(***************************************************************************)
VARIABLES
    domains,          \* e.domains: name -> sorted address list
    wildcards,        \* e.wildcards
    controlRoutes,    \* e.controlRoutes
    mu,               \* holder of e.mu: "none", "worker" or "observer"
    queue,            \* e.queue: the tasks added and not yet started
    submitted,        \* number of tasks added to the queue so far
    completed,        \* number of tasks the queue has completed
    cur,              \* the task the queue's worker is executing
    wpc,              \* the worker's position in that task
    wcalls,           \* collaborator calls of the worker's last function body
    pre,              \* state saved as updateDomains entered (lines 181-186)
    lastReconcile,    \* how the last updateRoutes ended
    advertised,       \* RouteAdvertiser: the advertised prefixes
    store,            \* RouteAdvertiser: the persisted route info
    opc,              \* ObserveDNSResponse: position of the observing caller
    msg,              \* the message being observed
    off,              \* dnsmessage.Parser: index of the current answer record
    resHeaderValid,   \* dnsmessage.Parser: a header is parsed, its body not
    cnameChain,       \* cnameChain of ObserveDNSResponse
    addressRecords,   \* addressRecords of ObserveDNSResponse
    todo,             \* owner names the range loop has not visited yet
    owner,            \* owner name the range loop is visiting
    walk,             \* domain of findRoutedDomainLocked
    iter,             \* parity of the iterations of the observation's loop
    ocalls,           \* collaborator calls of the observation so far
    waitPc,           \* Wait: position of the waiting caller
    waitTarget,       \* Wait: number of tasks submitted before the call
    drCopy,           \* the map DomainRoutes returned to its caller
    lastNames,        \* names of the replacement submitted last
    ncalls,           \* public API calls made
    nfail             \* collaborator calls that have failed

vars == <<domains, wildcards, controlRoutes, mu, queue, submitted, completed,
          cur, wpc, wcalls, pre, lastReconcile, advertised, store, opc, msg,
          off,
          resHeaderValid, cnameChain, addressRecords, todo, owner, walk,
          iter, ocalls, waitPc, waitTarget, drCopy, lastNames, ncalls,
          nfail>>

engineVars == <<domains, wildcards, controlRoutes>>
queueVars == <<queue, submitted, completed>>
workerVars == <<cur, wpc, wcalls, pre, lastReconcile>>
advertiserVars == <<advertised, store>>
parserVars == <<msg, off, resHeaderValid, cnameChain, addressRecords>>
observerVars == <<opc, msg, off, resHeaderValid, cnameChain, addressRecords,
                  todo, owner, walk, iter, ocalls>>
waitVars == <<waitPc, waitTarget>>

NoPre == [set |-> FALSE, domains |-> EmptyMap, wildcards |-> <<>>,
          discovered |-> EmptyRouteInfo.Discovered]

\* NewAppConnector: nothing configured, nothing queued, nothing advertised.
Init ==
    /\ domains = EmptyMap
    /\ wildcards = <<>>
    /\ controlRoutes = <<>>
    /\ mu = "none"
    /\ queue = <<>>
    /\ submitted = 0
    /\ completed = 0
    /\ cur = NoTask
    /\ wpc = "idle"
    /\ wcalls = <<>>
    /\ pre = NoPre
    /\ lastReconcile = "none"
    /\ advertised = {}
    /\ store = EmptyRouteInfo
    /\ opc = "idle"
    /\ msg = NoMessage
    /\ off = 1
    /\ resHeaderValid = FALSE
    /\ cnameChain = EmptyMap
    /\ addressRecords = EmptyMap
    /\ todo = {}
    /\ owner = <<>>
    /\ walk = <<>>
    /\ iter = 0
    /\ ocalls = <<>>
    /\ waitPc = "idle"
    /\ waitTarget = 0
    /\ drCopy = NoCopy
    /\ lastNames = <<>>
    /\ ncalls = 0
    /\ nfail = 0

(***************************************************************************)
(* The mutex e.mu and the execution queue e.queue.                         *)
(***************************************************************************)
\* A Lock that does not wait for the holder to unlock.
LockMuNoWait(who) == mu' = who

LockMu(who) == mu = "none" /\ mu' = who

UnlockMu(who) == mu = who /\ mu' = "none"

\* ExecQueue.Add: the tasks join the end of the queue, in the order given,
\* and the caller goes on at once.
QueueAdd(tasks) ==
    /\ queue' = queue \o [i \in 1..Len(tasks) |->
                             [tasks[i] EXCEPT !.id = submitted + i]]
    /\ submitted' = submitted + Len(tasks)
    /\ UNCHANGED completed

\* ExecQueue.Wait: all the tasks added before the call have completed.
QueueWaitDone(target) == completed >= target

\* The queue's worker takes the oldest task when it executes none.
FirstStep(kind) ==
    CASE kind = "domains" -> "updateDomains"
      [] kind = "both" -> "updateRoutes"
      [] kind = "advertise" -> "advertise"
      [] kind = "unadvertise" -> "unadvertise"

WorkerStart ==
    /\ wpc = "idle"
    /\ queue # <<>>
    /\ cur' = Head(queue)
    /\ queue' = Tail(queue)
    /\ wpc' = FirstStep(Head(queue).kind)
    /\ UNCHANGED <<submitted, completed, wcalls, pre, lastReconcile, mu>>
    /\ UNCHANGED <<engineVars, advertiserVars, observerVars, waitVars, drCopy,
                   lastNames, ncalls, nfail>>

\* The task's function has returned: the queue counts it as completed.
TaskDone ==
    /\ cur' = NoTask
    /\ wpc' = "idle"
    /\ wcalls' = <<>>
    /\ pre' = NoPre
    /\ completed' = completed + 1
    /\ UNCHANGED <<queue, submitted, lastReconcile>>

(***************************************************************************)
(* The public operations that queue a configuration update.                *)
(***************************************************************************)
\* An UpdateDomains that replaces the domains on the caller's thread instead
\* of queueing the replacement.
UpdateDomainsInline(names) ==
    /\ ncalls < MaxCalls
    /\ ncalls' = ncalls + 1
    /\ mu = "none"
    /\ LET r == updateDomainsResult(names, domains, wildcards,
                                    store.Discovered)
       IN  /\ domains' = r.domains
           /\ wildcards' = r.wildcards
           /\ store' = [store EXCEPT !.Discovered = r.discovered]
    /\ lastNames' = names
    /\ UNCHANGED <<controlRoutes, mu, queueVars, workerVars, advertised,
                   observerVars, waitVars, drCopy, nfail>>

UpdateDomains(names) ==
    /\ ncalls < MaxCalls
    /\ ncalls' = ncalls + 1
    /\ QueueAdd(<<Task("domains", names, <<>>, <<>>, 0)>>)
    /\ lastNames' = names
    /\ UNCHANGED <<engineVars, mu, workerVars, advertiserVars, observerVars,
                   waitVars, drCopy, nfail>>

UpdateDomainsAndRoutes(names, routes) ==
    /\ ncalls < MaxCalls
    /\ ncalls' = ncalls + 1
    /\ QueueAdd(<<Task("both", names, routes, <<>>, 0)>>)
    /\ lastNames' = names
    /\ UNCHANGED <<engineVars, mu, workerVars, advertiserVars, observerVars,
                   waitVars, drCopy, nfail>>

(***************************************************************************)
(* Wait.                                                                   *)
(***************************************************************************)
WaitCall ==
    /\ waitPc # "waiting"
    /\ ncalls < MaxCalls
    /\ ncalls' = ncalls + 1
    /\ waitPc' = "waiting"
    /\ waitTarget' = submitted
    /\ UNCHANGED <<drCopy, engineVars, mu, queueVars, workerVars, advertiserVars,
                   observerVars, lastNames, nfail>>

\* A Wait that returns without consulting the queue.
WaitReturnAtOnce ==
    /\ waitPc = "waiting"
    /\ waitPc' = "returned"
    /\ UNCHANGED <<waitTarget, drCopy, engineVars, mu, queueVars, workerVars,
                   advertiserVars, observerVars, lastNames, ncalls, nfail>>

WaitReturn ==
    /\ waitPc = "waiting"
    /\ QueueWaitDone(waitTarget)
    /\ waitPc' = "returned"
    /\ UNCHANGED <<waitTarget, drCopy, engineVars, mu, queueVars, workerVars,
                   advertiserVars, observerVars, lastNames, ncalls, nfail>>

\* ctx is cancelled while the caller waits.
WaitCancelled ==
    /\ waitPc = "waiting"
    /\ waitPc' = "cancelled"
    /\ UNCHANGED <<waitTarget, drCopy, engineVars, mu, queueVars, workerVars,
                   advertiserVars, observerVars, lastNames, ncalls, nfail>>

(***************************************************************************)
(* DomainRoutes and its caller, which owns the map it was given and may    *)
(* write to it.  A behaviour takes one copy.                               *)
(***************************************************************************)
DomainRoutes ==
    /\ ~drCopy.taken
    /\ ncalls < MaxCalls
    /\ ncalls' = ncalls + 1
    /\ mu = "none"
    /\ drCopy' = DomainRoutesResult(domains)
    /\ UNCHANGED <<engineVars, mu, queueVars, workerVars, advertiserVars,
                   observerVars, waitVars, lastNames, nfail>>

\* The caller overwrites the first address of a slice of its map; the
\* write lands in the engine's slice when the two share their storage.
CallerWrites(k) ==
    /\ drCopy.taken
    /\ k \in DOMAIN drCopy.m
    /\ drCopy.m[k].addrs # <<>>
    /\ drCopy.m[k].addrs[1] # CallerAddr
    /\ drCopy' = [drCopy EXCEPT !.m[k].addrs[1] = CallerAddr]
    /\ IF drCopy.m[k].backing = "engine" /\ k \in DOMAIN domains
            /\ domains[k] # <<>>
         THEN domains' = [domains EXCEPT ![k][1] = CallerAddr]
         ELSE UNCHANGED domains
    /\ UNCHANGED <<wildcards, controlRoutes, mu, queueVars, workerVars,
                   advertiserVars, observerVars, waitVars, lastNames, ncalls,
                   nfail>>

\* The caller deletes a key of its map; the key leaves the engine's map
\* when the two are the same map.
CallerDeletes(k) ==
    /\ drCopy.taken
    /\ k \in DOMAIN drCopy.m
    /\ drCopy' = [drCopy EXCEPT !.m = MapDelete(@, k)]
    /\ IF drCopy.backing = "engine"
         THEN domains' = MapDelete(domains, k)
         ELSE UNCHANGED domains
    /\ UNCHANGED <<wildcards, controlRoutes, mu, queueVars, workerVars,
                   advertiserVars, observerVars, waitVars, lastNames, ncalls,
                   nfail>>

CallerNext ==
    \E k \in DOMAIN drCopy.m : CallerWrites(k) \/ CallerDeletes(k)

(***************************************************************************)
(* The RouteAdvertiser collaborator.  A call that returns an error leaves  *)
(* the advertised set as it was.                                           *)
(***************************************************************************)
AdvertiseRoute(adv, routes, ok) == IF ok THEN adv \cup SeqToSet(routes) ELSE adv

UnadvertiseRoute(adv, routes, ok) == IF ok THEN adv \ SeqToSet(routes) ELSE adv

Failures(calls) == Cardinality({i \in 1..Len(calls) : ~calls[i].ok})

ReadCall == Call("ReadRouteInfoFromStore", <<>>, TRUE)
WriteCall == Call("UpdateRoutesInfoToStore", <<>>, TRUE)

(***************************************************************************)
(* updateDomains and updateRoutes, run by the worker.                      *)
(***************************************************************************)
WorkerUpdateDomains ==
    /\ wpc = "updateDomains"
    /\ LockMu("worker")
    /\ LET r == updateDomainsResult(cur.names, domains, wildcards,
                                    store.Discovered)
       IN  /\ domains' = r.domains
           /\ wildcards' = r.wildcards
           /\ store' = [store EXCEPT !.Discovered = r.discovered]
    /\ pre' = [set |-> TRUE, domains |-> domains, wildcards |-> wildcards,
               discovered |-> store.Discovered]
    /\ wcalls' = <<ReadCall, WriteCall>>
    /\ wpc' = "updateDomainsUnlock"
    /\ UNCHANGED <<controlRoutes, cur, lastReconcile, advertised, queueVars,
                   observerVars, waitVars, drCopy, lastNames, ncalls, nfail>>

\* A reconciliation that advertises the new set before it unadvertises the
\* stale prefixes and the subsumed routes, and does both before the check
\* of the advertise call's error.
updateRoutesAdvertiseFirst(routes, ctrl, adv, st, ok1, ok2, ok3, subsumed) ==
    IF ctrl = routes
      THEN [controlRoutes |-> ctrl, advertised |-> adv, store |-> st,
            calls |-> <<>>, outcome |-> "skipped"]
    ELSE LET toRemove == StaleCorp(st.Corp, routes)
             adv1 == UnadvertiseRoute(AdvertiseRoute(adv, routes, ok2),
                                      toRemove, ok1)
             calls1 == <<ReadCall, Call("AdvertiseRoute", routes, ok2),
                         Call("UnadvertiseRoute", toRemove, ok1)>>
         IN  IF ~ok2
               THEN [controlRoutes |-> ctrl, advertised |-> adv1, store |-> st,
                     calls |-> calls1, outcome |-> "aborted"]
               ELSE [controlRoutes |-> routes,
                     advertised |-> UnadvertiseRoute(adv1, subsumed, ok3),
                     store |-> [st EXCEPT !.Corp = routes],
                     calls |-> calls1 \o
                         <<Call("UnadvertiseRoute", subsumed, ok3), WriteCall>>,
                     outcome |-> "done"]

\* A reconciliation that goes on after the advertise call has failed.
updateRoutesIgnoreError(routes, ctrl, adv, st, ok1, ok2, ok3, subsumed) ==
    IF ctrl = routes
      THEN [controlRoutes |-> ctrl, advertised |-> adv, store |-> st,
            calls |-> <<>>, outcome |-> "skipped"]
    ELSE LET toRemove == StaleCorp(st.Corp, routes)
             adv1 == UnadvertiseRoute(adv, toRemove, ok1)
             calls1 == <<ReadCall, Call("UnadvertiseRoute", toRemove, ok1),
                         Call("AdvertiseRoute", routes, ok2)>>
         IN  [controlRoutes |-> routes,
              advertised |->
                  UnadvertiseRoute(AdvertiseRoute(adv1, routes, ok2),
                                   subsumed, ok3),
              store |-> [st EXCEPT !.Corp = routes],
              calls |-> calls1 \o
                  <<Call("UnadvertiseRoute", subsumed, ok3), WriteCall>>,
              outcome |-> IF ok2 THEN "done" ELSE "aborted"]

\* A reconciliation whose short cut compares the two prefix lists as sets.
updateRoutesSetShortcut(routes, ctrl, adv, st, ok1, ok2, ok3, subsumed) ==
    IF SeqToSet(ctrl) = SeqToSet(routes)
      THEN [controlRoutes |-> ctrl, advertised |-> adv, store |-> st,
            calls |-> <<>>, outcome |-> "skipped"]
    ELSE LET toRemove == StaleCorp(st.Corp, routes)
             adv1 == UnadvertiseRoute(adv, toRemove, ok1)
             calls1 == <<ReadCall, Call("UnadvertiseRoute", toRemove, ok1),
                         Call("AdvertiseRoute", routes, ok2)>>
         IN  IF ~ok2
               THEN [controlRoutes |-> ctrl, advertised |-> adv1, store |-> st,
                     calls |-> calls1, outcome |-> "aborted"]
               ELSE [controlRoutes |-> routes,
                     advertised |->
                         UnadvertiseRoute(AdvertiseRoute(adv1, routes, TRUE),
                                          subsumed, ok3),
                     store |-> [st EXCEPT !.Corp = routes],
                     calls |-> calls1 \o
                         <<Call("UnadvertiseRoute", subsumed, ok3), WriteCall>>,
                     outcome |-> "done"]

\* The outcome of updateRoutes (lines 234-278) given the results ok1, ok2,
\* ok3 of its three advertiser calls and the subsumed routes found.
updateRoutesResult(routes, ctrl, adv, st, ok1, ok2, ok3, subsumed) ==
    IF ctrl = routes
      THEN [controlRoutes |-> ctrl, advertised |-> adv, store |-> st,
            calls |-> <<>>, outcome |-> "skipped"]
    ELSE LET toRemove == StaleCorp(st.Corp, routes)
             adv1 == UnadvertiseRoute(adv, toRemove, ok1)
             calls1 == <<ReadCall, Call("UnadvertiseRoute", toRemove, ok1),
                         Call("AdvertiseRoute", routes, ok2)>>
         IN  IF ~ok2
               THEN [controlRoutes |-> ctrl, advertised |-> adv1, store |-> st,
                     calls |-> calls1, outcome |-> "aborted"]
               ELSE [controlRoutes |-> routes,
                     advertised |->
                         UnadvertiseRoute(AdvertiseRoute(adv1, routes, TRUE),
                                          subsumed, ok3),
                     store |-> [st EXCEPT !.Corp = routes],
                     calls |-> calls1 \o
                         <<Call("UnadvertiseRoute", subsumed, ok3), WriteCall>>,
                     outcome |-> "done"]

\* A reconciliation that also drops from the domain map the addresses whose
\* single-address routes it unadvertises as subsumed.
WorkerUpdateRoutesDropSubsumed ==
    /\ wpc = "updateRoutes"
    /\ LockMu("worker")
    /\ \E ok1, ok2, ok3 \in BOOLEAN :
       \E subsumed \in SubsumedChoices(cur.routes, domains) :
          LET r == updateRoutesResult(cur.routes, controlRoutes, advertised,
                                      store, ok1, ok2, ok3, subsumed)
          IN  /\ nfail + Failures(r.calls) <= MaxFailures
              /\ nfail' = nfail + Failures(r.calls)
              /\ controlRoutes' = r.controlRoutes
              /\ advertised' = r.advertised
              /\ store' = r.store
              /\ wcalls' = r.calls
              /\ lastReconcile' = r.outcome
              /\ domains' =
                    IF r.outcome = "done"
                      THEN [d \in DOMAIN domains |->
                              SelectSeq(domains[d],
                                        LAMBDA a : SingleRoute(a) \notin
                                                       SeqToSet(subsumed))]
                      ELSE domains
    /\ wpc' = "updateRoutesUnlock"
    /\ UNCHANGED <<wildcards, cur, pre, queueVars, observerVars,
                   waitVars, drCopy, lastNames, ncalls>>

WorkerUpdateRoutes ==
    /\ wpc = "updateRoutes"
    /\ LockMu("worker")
    /\ \E ok1, ok2, ok3 \in BOOLEAN :
       \E subsumed \in SubsumedChoices(cur.routes, domains) :
          LET r == updateRoutesResult(cur.routes, controlRoutes, advertised,
                                      store, ok1, ok2, ok3, subsumed)
          IN  /\ nfail + Failures(r.calls) <= MaxFailures
              /\ nfail' = nfail + Failures(r.calls)
              /\ controlRoutes' = r.controlRoutes
              /\ advertised' = r.advertised
              /\ store' = r.store
              /\ wcalls' = r.calls
              /\ lastReconcile' = r.outcome
    /\ wpc' = "updateRoutesUnlock"
    /\ UNCHANGED <<domains, wildcards, cur, pre, queueVars, observerVars,
                   waitVars, drCopy, lastNames, ncalls>>

\* A composite task that ends after updateRoutes.
WorkerUpdateRoutesOnly ==
    /\ wpc = "updateRoutesUnlock"
    /\ UnlockMu("worker")
    /\ TaskDone
    /\ UNCHANGED <<engineVars, advertiserVars, observerVars, waitVars, drCopy,
                   lastNames, ncalls, nfail>>

\* updateRoutes returns and UpdateDomainsAndRoutes goes on to updateDomains.
WorkerUpdateRoutesUnlock ==
    /\ wpc = "updateRoutesUnlock"
    /\ UnlockMu("worker")
    /\ wpc' = "updateDomains"
    /\ wcalls' = <<>>
    /\ UNCHANGED <<cur, pre, lastReconcile, engineVars, queueVars,
                   advertiserVars, observerVars, waitVars, drCopy, lastNames, ncalls,
                   nfail>>

(***************************************************************************)
(* The tasks that scheduleAdvertisement and scheduleUndvertisement queue.  *)
(***************************************************************************)
\* The advertise task, were it to go on to the domain map although its
\* AdvertiseRoute call returned an error.
WorkerAdvertiseCallIgnoreError ==
    /\ wpc = "advertise"
    /\ \E ok \in BOOLEAN :
          /\ ok \/ nfail < MaxFailures
          /\ nfail' = IF ok THEN nfail ELSE nfail + 1
          /\ advertised' = AdvertiseRoute(advertised, cur.routes, ok)
          /\ wpc' = "advertiseLock"
          /\ wcalls' = <<Call("AdvertiseRoute", cur.routes, ok)>>
          /\ UNCHANGED <<cur, pre, lastReconcile, queueVars>>
    /\ UNCHANGED <<engineVars, mu, store, observerVars, waitVars, drCopy, lastNames,
                   ncalls>>

WorkerAdvertiseCall ==
    /\ wpc = "advertise"
    /\ \E ok \in BOOLEAN :
          /\ ok \/ nfail < MaxFailures
          /\ nfail' = IF ok THEN nfail ELSE nfail + 1
          /\ advertised' = AdvertiseRoute(advertised, cur.routes, ok)
          /\ IF ok
               THEN /\ wpc' = "advertiseLock"
                    /\ wcalls' = <<Call("AdvertiseRoute", cur.routes, TRUE)>>
                    /\ UNCHANGED <<cur, pre, lastReconcile, queueVars>>
               ELSE TaskDone
    /\ UNCHANGED <<engineVars, mu, store, observerVars, waitVars, drCopy, lastNames,
                   ncalls>>

RECURSIVE AddSingleRoutes(_, _, _)
AddSingleRoutes(doms, domain, routes) ==
    IF routes = <<>> THEN doms
    ELSE LET route == Head(routes)
             addr == route.addr
         IN  IF IsSingleIP(route) /\ ~hasDomainAddrLocked(doms, domain, addr)
               THEN AddSingleRoutes(addDomainAddrLocked(doms, domain, addr),
                                    domain, Tail(routes))
               ELSE AddSingleRoutes(doms, domain, Tail(routes))

WorkerAdvertiseApply ==
    /\ wpc = "advertiseLock"
    /\ LockMu("worker")
    /\ domains' = AddSingleRoutes(domains, cur.domain, cur.routes)
    /\ wpc' = "advertiseUnlock"
    /\ UNCHANGED <<wildcards, controlRoutes, cur, wcalls, pre, lastReconcile,
                   queueVars, advertiserVars, observerVars, waitVars, drCopy,
                   lastNames, ncalls, nfail>>

WorkerUnadvertiseCall ==
    /\ wpc = "unadvertise"
    /\ \E ok \in BOOLEAN :
          /\ ok \/ nfail < MaxFailures
          /\ nfail' = IF ok THEN nfail ELSE nfail + 1
          /\ advertised' = UnadvertiseRoute(advertised, cur.routes, ok)
          /\ IF ok
               THEN /\ wpc' = "unadvertiseLock"
                    /\ wcalls' = <<Call("UnadvertiseRoute", cur.routes, TRUE)>>
                    /\ UNCHANGED <<cur, pre, lastReconcile, queueVars>>
               ELSE TaskDone
    /\ UNCHANGED <<engineVars, mu, store, observerVars, waitVars, drCopy, lastNames,
                   ncalls>>

RECURSIVE DeleteSingleRoutes(_, _, _)
DeleteSingleRoutes(doms, domain, routes) ==
    IF routes = <<>> THEN doms
    ELSE LET route == Head(routes)
         IN  IF IsSingleIP(route)
               THEN DeleteSingleRoutes(
                        deleteDomainAddrLocked(doms, domain, route.addr),
                        domain, Tail(routes))
               ELSE DeleteSingleRoutes(doms, domain, Tail(routes))

WorkerUnadvertiseApply ==
    /\ wpc = "unadvertiseLock"
    /\ LockMu("worker")
    /\ domains' = DeleteSingleRoutes(domains, cur.domain, cur.routes)
    /\ wpc' = "unadvertiseUnlock"
    /\ UNCHANGED <<wildcards, controlRoutes, cur, wcalls, pre, lastReconcile,
                   queueVars, advertiserVars, observerVars, waitVars, drCopy,
                   lastNames, ncalls, nfail>>

\* The deferred Unlock of updateDomains and of the scheduled tasks, with
\* which the task's function returns.
WorkerUnlockDone ==
    /\ wpc \in {"updateDomainsUnlock", "advertiseUnlock", "unadvertiseUnlock"}
    /\ UnlockMu("worker")
    /\ TaskDone
    /\ UNCHANGED <<engineVars, advertiserVars, observerVars, waitVars, drCopy,
                   lastNames, ncalls, nfail>>

(***************************************************************************)
(* ObserveDNSResponse, run by the caller that observed the response.       *)
(***************************************************************************)
\* The observation returns: its locals are gone.
ObserveReturn ==
    /\ opc' = "idle"
    /\ msg' = NoMessage
    /\ off' = 1
    /\ resHeaderValid' = FALSE
    /\ cnameChain' = EmptyMap
    /\ addressRecords' = EmptyMap
    /\ todo' = {}
    /\ owner' = <<>>
    /\ walk' = <<>>
    /\ iter' = 0
    /\ ocalls' = <<>>

\* An observation that goes on to the answers although the header or the
\* question section did not parse.
ObserveIgnoringError(m) ==
    /\ opc = "idle"
    /\ ncalls < MaxCalls
    /\ ncalls' = ncalls + 1
    /\ opc' = "parse"
    /\ msg' = m
    /\ UNCHANGED <<off, resHeaderValid, cnameChain, addressRecords, todo,
                   owner, walk, iter, ocalls>>
    /\ UNCHANGED <<engineVars, mu, queueVars, workerVars, advertiserVars,
                   waitVars, drCopy, lastNames, nfail>>

\* p.Start and p.SkipAllQuestions (lines 308-314).
ObserveDNSResponse(m) ==
    /\ opc = "idle"
    /\ ncalls < MaxCalls
    /\ ncalls' = ncalls + 1
    /\ IF m.startOk /\ m.questionsOk
         THEN /\ opc' = "parse"
              /\ msg' = m
              /\ UNCHANGED <<off, resHeaderValid, cnameChain, addressRecords,
                             todo, owner, walk, iter, ocalls>>
         ELSE ObserveReturn
    /\ UNCHANGED <<engineVars, mu, queueVars, workerVars, advertiserVars,
                   waitVars, drCopy, lastNames, nfail>>

\* The body of the current record is read or skipped: the parser moves on.
ConsumeAnswer ==
    /\ off' = off + 1
    /\ resHeaderValid' = FALSE

\* One iteration of the answer loop (lines 326-391).  AnswerHeader returns
\* the header it already parsed while that header's body is unread.
ObserveParse ==
    /\ opc = "parse"
    /\ IF ~resHeaderValid /\ off > Len(msg.answers)
         THEN \* ErrSectionDone
              /\ opc' = "lock"
              /\ iter' = 0
              /\ UNCHANGED <<parserVars, todo, owner, walk, ocalls>>
       ELSE LET h == msg.answers[off]
                domain == NormalizeName(h.name)
                cname == NormalizeName(h.cname)
            IN  IF ~resHeaderValid /\ ~h.hdrOk
                  THEN ObserveReturn
                ELSE IF h.class # "INET" \/ h.type \notin {"CNAME", "A", "AAAA"}
                  THEN IF h.bodyOk
                         THEN /\ ConsumeAnswer
                              /\ iter' = 1 - iter
                              /\ UNCHANGED <<opc, msg, cnameChain,
                                             addressRecords, todo, owner, walk,
                                             ocalls>>
                         ELSE ObserveReturn
                ELSE IF Len(domain) = 0
                  THEN \* continue, with the record's body unread
                       /\ resHeaderValid' = TRUE
                       /\ iter' = 1 - iter
                       /\ UNCHANGED <<opc, msg, off, cnameChain, addressRecords,
                                      todo, owner, walk, ocalls>>
                ELSE IF ~h.bodyOk
                  THEN ObserveReturn
                ELSE IF h.type = "CNAME"
                  THEN /\ ConsumeAnswer
                       /\ iter' = 1 - iter
                       /\ cnameChain' = IF Len(cname) = 0 THEN cnameChain
                                        ELSE MapPut(cnameChain, cname, domain)
                       /\ UNCHANGED <<opc, msg, addressRecords, todo, owner,
                                      walk, ocalls>>
                ELSE /\ ConsumeAnswer
                     /\ iter' = 1 - iter
                     /\ addressRecords' =
                            MapPut(addressRecords, domain,
                                   Append(MapGet(addressRecords, domain), h.addr))
                     /\ UNCHANGED <<opc, msg, cnameChain, todo, owner, walk,
                                    ocalls>>
    /\ UNCHANGED <<engineVars, mu, queueVars, workerVars, advertiserVars,
                   waitVars, drCopy, lastNames, ncalls, nfail>>

\* e.mu.Lock() (line 393).
ObserveLock ==
    /\ opc = "lock"
    /\ LockMu("observer")
    /\ opc' = "range"
    /\ todo' = DOMAIN addressRecords
    /\ UNCHANGED <<parserVars, owner, walk, iter, ocalls>>
    /\ UNCHANGED <<engineVars, queueVars, workerVars, advertiserVars, waitVars, drCopy,
                   lastNames, ncalls, nfail>>

\* The range over addressRecords (line 396) takes the owner names in an
\* unspecified order; after the last one the deferred Unlock runs.
ObserveRange ==
    /\ opc = "range"
    /\ IF todo = {}
         THEN /\ UnlockMu("observer")
              /\ ObserveReturn
         ELSE /\ \E d \in todo :
                    /\ owner' = d
                    /\ walk' = d
                    /\ todo' = todo \ {d}
              /\ opc' = "walk"
              /\ UNCHANGED <<mu, parserVars, iter, ocalls>>
    /\ UNCHANGED <<engineVars, queueVars, workerVars, advertiserVars, waitVars, drCopy,
                   lastNames, ncalls, nfail>>

\* A classification that takes every observed address for a new one.
RECURSIVE ClassifyAllNew(_, _, _, _)
ClassifyAllNew(doms, ctrl, domain, addrs) ==
    IF addrs = <<>>
      THEN [domains |-> doms, toAdvertise |-> <<>>, toUpdateDate |-> <<>>]
    ELSE LET r == ClassifyAllNew(doms, ctrl, domain, Tail(addrs))
         IN  [r EXCEPT !.toAdvertise =
                  <<PrefixFrom(Head(addrs), BitLen(Head(addrs)))>> \o @]

\* A classification that takes an address under an operator prefix for a
\* known one without recording it for the domain.
RECURSIVE ClassifyNoInsert(_, _, _, _)
ClassifyNoInsert(doms, ctrl, domain, addrs) ==
    IF addrs = <<>>
      THEN [domains |-> doms, toAdvertise |-> <<>>, toUpdateDate |-> <<>>]
    ELSE LET addr == Head(addrs)
             pfx == PrefixFrom(addr, BitLen(addr))
             r == ClassifyNoInsert(doms, ctrl, domain, Tail(addrs))
         IN  IF \/ hasDomainAddrLocked(doms, domain, addr)
                \/ \E i \in 1..Len(ctrl) : PrefixContains(ctrl[i], addr)
               THEN [r EXCEPT !.toUpdateDate = <<pfx>> \o @]
               ELSE [r EXCEPT !.toAdvertise = <<pfx>> \o @]

\* isAddrKnownLocked over the observed addresses (lines 406-414): the
\* domain map it leaves, and the two classes.
RECURSIVE Classify(_, _, _, _)
Classify(doms, ctrl, domain, addrs) ==
    IF addrs = <<>>
      THEN [domains |-> doms, toAdvertise |-> <<>>, toUpdateDate |-> <<>>]
    ELSE LET addr == Head(addrs)
             pfx == PrefixFrom(addr, BitLen(addr))
         IN  IF hasDomainAddrLocked(doms, domain, addr)
               THEN LET r == Classify(doms, ctrl, domain, Tail(addrs))
                    IN  [r EXCEPT !.toUpdateDate = <<pfx>> \o @]
             ELSE IF \E i \in 1..Len(ctrl) : PrefixContains(ctrl[i], addr)
               THEN LET r == Classify(addDomainAddrLocked(doms, domain, addr),
                                      ctrl, domain, Tail(addrs))
                    IN  [r EXCEPT !.toUpdateDate = <<pfx>> \o @]
             ELSE LET r == Classify(doms, ctrl, domain, Tail(addrs))
                  IN  [r EXCEPT !.toAdvertise = <<pfx>> \o @]

\* The range body of a routed domain, were it to schedule the
\* unadvertisement of the stale routes before the advertisement.
ObserveRoutedUnadvertiseFirst(domain, doms) ==
    LET c == Classify(doms, controlRoutes, domain,
                      MapGet(addressRecords, owner))
        routesToUpdate == c.toAdvertise \o c.toUpdateDate
        disc == UpdateRoutesInDiscoveredForDomain(store.Discovered, domain,
                                                  routesToUpdate)
        outDated == SetToSortedSeq(
                        OutDatedRoutesInDiscoveredForDomain(disc, domain,
                                                            routesToUpdate))
    IN  /\ domains' = c.domains
        /\ store' = [store EXCEPT !.Discovered = disc]
        /\ ocalls' = ocalls \o <<ReadCall, WriteCall>>
        /\ QueueAdd(<<Task("unadvertise", <<>>, outDated, domain, 0),
                      Task("advertise", <<>>, c.toAdvertise, domain, 0)>>)

\* The rest of the range body for a routed domain (lines 404-430).
ObserveRouted(domain, doms) ==
    LET c == Classify(doms, controlRoutes, domain,
                      MapGet(addressRecords, owner))
        routesToUpdate == c.toAdvertise \o c.toUpdateDate
        disc == UpdateRoutesInDiscoveredForDomain(store.Discovered, domain,
                                                  routesToUpdate)
        outDated == SetToSortedSeq(
                        OutDatedRoutesInDiscoveredForDomain(disc, domain,
                                                            routesToUpdate))
    IN  /\ domains' = c.domains
        /\ store' = [store EXCEPT !.Discovered = disc]
        /\ ocalls' = ocalls \o <<ReadCall, WriteCall>>
        /\ QueueAdd(<<Task("advertise", <<>>, c.toAdvertise, domain, 0),
                      Task("unadvertise", <<>>, outDated, domain, 0)>>)

\* A walk that takes the last name of the chain for a routed domain when no
\* name of the chain is one.
ObserveWalkRoutesLast ==
    /\ opc = "walk"
    /\ IF walk \in DOMAIN domains
         THEN /\ ObserveRouted(walk, domains)
              /\ opc' = "range"
              /\ iter' = 0
              /\ UNCHANGED walk
       ELSE LET matched == MatchesWildcard(walk, wildcards)
                doms == IF matched THEN MapPut(domains, walk, <<>>) ELSE domains
            IN  IF walk \in DOMAIN cnameChain
                  THEN /\ walk' = cnameChain[walk]
                       /\ iter' = 1 - iter
                       /\ domains' = doms
                       /\ UNCHANGED <<opc, store, ocalls, queueVars>>
                ELSE /\ ObserveRouted(walk, doms)
                     /\ opc' = "range"
                     /\ iter' = 0
                     /\ UNCHANGED walk
    /\ UNCHANGED <<wildcards, controlRoutes, mu, workerVars, advertised,
                   parserVars, todo, owner, waitVars, drCopy, lastNames, ncalls, nfail>>

\* One iteration of the loop of findRoutedDomainLocked (lines 441-461) and,
\* when the loop ends, the rest of the range body.
ObserveWalk ==
    /\ opc = "walk"
    /\ IF walk \in DOMAIN domains
         THEN /\ ObserveRouted(walk, domains)
              /\ opc' = "range"
              /\ iter' = 0
              /\ UNCHANGED walk
       ELSE LET matched == MatchesWildcard(walk, wildcards)
                doms == IF matched THEN MapPut(domains, walk, <<>>) ELSE domains
            IN  IF walk \in DOMAIN cnameChain
                  THEN /\ walk' = cnameChain[walk]
                       /\ iter' = 1 - iter
                       /\ domains' = doms
                       /\ UNCHANGED <<opc, store, ocalls, queueVars>>
                ELSE IF matched
                  THEN /\ ObserveRouted(walk, doms)
                       /\ opc' = "range"
                       /\ iter' = 0
                       /\ UNCHANGED walk
                ELSE /\ opc' = "range"
                     /\ iter' = 0
                     /\ UNCHANGED <<walk, domains, store, ocalls, queueVars>>
    /\ UNCHANGED <<wildcards, controlRoutes, mu, workerVars, advertised,
                   parserVars, todo, owner, waitVars, drCopy, lastNames, ncalls, nfail>>

(***************************************************************************)
(* The behaviours.                                                         *)
(***************************************************************************)
WorkerNext ==
    \/ WorkerStart
    \/ WorkerUpdateDomains
    \/ WorkerUpdateRoutes
    \/ WorkerUpdateRoutesUnlock
    \/ WorkerAdvertiseCall
    \/ WorkerAdvertiseApply
    \/ WorkerUnadvertiseCall
    \/ WorkerUnadvertiseApply
    \/ WorkerUnlockDone

ObserverNext ==
    \/ ObserveParse
    \/ ObserveLock
    \/ ObserveRange
    \/ ObserveWalk

Next ==
    \/ \E names \in DomainLists : UpdateDomains(names)
    \/ \E c \in Configs : UpdateDomainsAndRoutes(c[1], c[2])
    \/ \E m \in Messages : ObserveDNSResponse(m)
    \/ DomainRoutes
    \/ CallerNext
    \/ WaitCall
    \/ WaitReturn
    \/ WaitCancelled
    \/ WorkerNext
    \/ ObserverNext

Spec == Init /\ [][Next]_vars

\* The queue's worker and the observing caller keep running.
LiveSpec == Spec /\ WF_vars(WorkerNext) /\ WF_vars(ObserverNext)

(***************************************************************************)
(* Properties of the engine.                                               *)
(***************************************************************************)
QueueIdle == queue = <<>> /\ wpc = "idle"

HeldAddrs(doms) == UNION {SeqToSet(doms[d]) : d \in DOMAIN doms}

\* C1: whenever the apply queue is idle, every prefix of the operator
\* baseline (controlRoutes) is advertised, and every address held in a
\* domain's address set has its single-address route advertised or lies in
\* an advertised operator prefix.  Stated for the case most favourable to
\* the claim, in which no collaborator call has returned an error.
C1_AdvertisedWhenIdle ==
    (QueueIdle /\ nfail = 0) =>
        /\ \A i \in 1..Len(controlRoutes) : controlRoutes[i] \in advertised
        /\ \A a \in HeldAddrs(domains) :
              \/ SingleRoute(a) \in advertised
              \/ \E i \in 1..Len(controlRoutes) :
                    /\ controlRoutes[i] \in advertised
                    /\ PrefixContains(controlRoutes[i], a)

\* C2: ObserveDNSResponse returns, and releases the mutex, for every input
\* message: an observation that has started is eventually over.
C2_ObserveReturns == (opc # "idle") ~> (opc = "idle" /\ mu # "observer")

\* The exact names and the wildcard suffixes that a name list configures.
ConfiguredExact(names) ==
    {ToLower(names[i]) : i \in 1..Len(names)} \
        {n \in {ToLower(names[i]) : i \in 1..Len(names)} :
            n = <<>> \/ StrHasPrefix(n, WildcardMarker)}

RECURSIVE ConfiguredWildcards(_)
ConfiguredWildcards(names) ==
    IF names = <<>> THEN <<>>
    ELSE LET n == ToLower(Head(names))
         IN  IF StrHasPrefix(n, WildcardMarker)
               THEN <<TrimPrefix(n, WildcardMarker)>> \o
                    ConfiguredWildcards(Tail(names))
               ELSE ConfiguredWildcards(Tail(names))

ObserverInCS == opc \in {"range", "walk"}

WorkerInCS ==
    wpc \in {"updateRoutesUnlock", "updateDomainsUnlock", "advertiseUnlock",
             "unadvertiseUnlock"}

\* C3: the domain map, the wildcard list and the operator baseline change
\* only in a step of the holder of the mutex, and the critical section of
\* an observation and that of a queued task never overlap.
C3_LockSerializes ==
    /\ [](/\ ~(ObserverInCS /\ WorkerInCS)
          /\ ObserverInCS => mu = "observer"
          /\ WorkerInCS => mu = "worker")
    /\ [][engineVars' # engineVars =>
             \/ mu = "observer" /\ mu' = "observer" /\ ObserverInCS
             \/ mu = "none" /\ mu' = "worker" /\ WorkerInCS']_vars

\* An observation is inside its critical section, with a name it created
\* in the domain map, while a queued domain replacement waits for the mutex.
C3_Witness ==
    /\ opc = "walk"
    /\ mu = "observer"
    /\ wpc = "updateDomains"
    /\ domains # EmptyMap

\* C4: the queue's worker executes one task at a time, in submission order;
\* once the queue has drained, the wildcard list is that of the replacement
\* submitted last and each of its exact names is a key of the domain map.
C4_FifoOneAtATime ==
    /\ (wpc = "idle") <=> (cur = NoTask)
    /\ wpc # "idle" => cur.id = completed + 1
    /\ \A i \in 1..Len(queue) :
          queue[i].id = completed + (IF wpc = "idle" THEN 0 ELSE 1) + i
    /\ submitted = completed + (IF wpc = "idle" THEN 0 ELSE 1) + Len(queue)
    /\ QueueIdle =>
          /\ wildcards = ConfiguredWildcards(lastNames)
          /\ ConfiguredExact(lastNames) \subseteq DOMAIN domains

\* Three tasks have run, the last of them a replacement that configures a
\* wildcard, and the queue has drained.
C4_Witness ==
    /\ QueueIdle
    /\ completed >= 3
    /\ wildcards # <<>>
    /\ domains # EmptyMap

\* C5: when Wait has returned without its context cancelled, every task
\* submitted before the call has completed, so that, when nothing was
\* submitted since, the configuration submitted last is in place; and the
\* update operations only queue their task.
C5_WaitAwaitsEarlierTasks ==
    /\ [](waitPc = "returned" =>
            /\ completed >= waitTarget
            /\ submitted = waitTarget =>
                  /\ QueueIdle
                  /\ wildcards = ConfiguredWildcards(lastNames)
                  /\ ConfiguredExact(lastNames) \subseteq DOMAIN domains)
    /\ [][(ncalls' # ncalls /\ submitted' # submitted) =>
             /\ UNCHANGED <<engineVars, advertiserVars, completed>>
             /\ submitted' = submitted + 1]_vars

\* Wait has returned after the three tasks of a replacement and of an
\* observation that were submitted before it.
C5_Witness ==
    /\ waitPc = "returned"
    /\ waitTarget >= 3
    /\ DOMAIN domains # {}

\* C6: the task of UpdateDomainsAndRoutes starts with updateRoutes, goes on
\* from it to updateDomains and completes after that, and the worker
\* executes no other task in between.
C6_RoutesThenDomainsInOneTask ==
    [][/\ (cur'.kind = "both" /\ cur' # cur) => wpc' = "updateRoutes"
       /\ (cur.kind = "both" /\ wpc = "updateRoutes") =>
             (cur' = cur /\ wpc' \in {"updateRoutes", "updateRoutesUnlock"})
       /\ (cur.kind = "both" /\ wpc = "updateRoutesUnlock") =>
             (cur' = cur /\ completed' = completed
              /\ wpc' \in {"updateRoutesUnlock", "updateDomains"})
       /\ (cur.kind = "both" /\ wpc = "updateDomains") =>
             (cur' = cur /\ completed' = completed
              /\ wpc' \in {"updateDomains", "updateDomainsUnlock"})
       /\ (cur.kind = "both" /\ cur' # cur) =>
             (wpc = "updateDomainsUnlock" /\ completed' = completed + 1)]_vars

\* A composite task has reconciled its routes and replaced the domains
\* while another task waits in the queue.
C6_Witness ==
    /\ cur.kind = "both"
    /\ wpc = "updateDomainsUnlock"
    /\ cur.routes # <<>>
    /\ controlRoutes = cur.routes
    /\ queue # <<>>

UpdateDomainsApplied == wpc = "updateDomainsUnlock" /\ pre.set

\* C7: after a domain replacement, each exact name of the input that was a
\* key of the domain map before has the addresses it had before, and its
\* discovered-route record is the one it had before.
C7_ExactNamesCarriedForward ==
    UpdateDomainsApplied =>
        \A d \in ConfiguredExact(cur.names) \cap DOMAIN pre.domains :
            /\ d \in DOMAIN domains
            /\ domains[d] = pre.domains[d]
            /\ DiscoveredGet(store.Discovered, d) =
                   DiscoveredGet(pre.discovered, d)

\* C8: after a domain replacement, a domain known before that the new list
\* does not name but a wildcard of the new list matches keeps its addresses
\* and its discovered-route record; one that is neither named nor matched
\* is dropped from the domain map and from the records.
C8_WildcardCarryForward ==
    UpdateDomainsApplied =>
        \A d \in ((DOMAIN pre.domains) \cup (DOMAIN pre.discovered))
                    \ ConfiguredExact(cur.names) :
            IF MatchesWildcard(d, ConfiguredWildcards(cur.names))
              THEN /\ d \in DOMAIN pre.domains =>
                         (d \in DOMAIN domains /\ domains[d] = pre.domains[d])
                   /\ d \in DOMAIN pre.discovered =>
                         (/\ d \in DOMAIN store.Discovered
                          /\ store.Discovered[d] = pre.discovered[d])
              ELSE /\ d \notin DOMAIN domains
                   /\ d \notin DOMAIN store.Discovered

\* A replacement has dropped a domain with addresses and a record from the
\* exact names and kept it under a wildcard.
C8_Witness ==
    /\ UpdateDomainsApplied
    /\ \E d \in (DOMAIN pre.domains) \cap (DOMAIN pre.discovered) :
          /\ pre.domains[d] # <<>>
          /\ ~pre.discovered[d].isNil
          /\ d \notin ConfiguredExact(cur.names)
          /\ MatchesWildcard(d, ConfiguredWildcards(cur.names))
          /\ d \in DOMAIN domains

\* C9: applying the domain replacement a second time with the same list
\* changes nothing, and the replacement calls neither AdvertiseRoute nor
\* UnadvertiseRoute.
C9_ReplacementIdempotent ==
    UpdateDomainsApplied =>
        /\ LET again == updateDomainsResult(cur.names, domains, wildcards,
                                            store.Discovered)
           IN  /\ again.domains = domains
               /\ again.wildcards = wildcards
               /\ again.discovered = store.Discovered
        /\ \A i \in 1..Len(wcalls) :
              wcalls[i].call \notin {"AdvertiseRoute", "UnadvertiseRoute"}

\* A replacement with a wildcard has been applied to a state with
\* discovered addresses, records and a wildcard list.
C9_Witness ==
    /\ UpdateDomainsApplied
    /\ pre.wildcards # <<>>
    /\ wildcards # <<>>
    /\ \E d \in DOMAIN domains : domains[d] # <<>>
    /\ \E d \in DOMAIN store.Discovered : ~store.Discovered[d].isNil

InputNames ==
    UNION {SeqToSet(l) : l \in DomainLists \cup {c[1] : c \in Configs}}

\* C10: every key of the domain map is a lowercase name that does not begin
\* with the wildcard marker, and every entry of the wildcard list is a
\* configured name with the marker stripped.
C10_KeysAreExactLowercase ==
    /\ \A d \in DOMAIN domains :
          d = ToLower(d) /\ ~StrHasPrefix(d, WildcardMarker)
    /\ \A i \in 1..Len(wildcards) :
          \E n \in InputNames : ToLower(n) = WildcardMarker \o wildcards[i]

(***************************************************************************)
(* Properties of the observation.                                          *)
(***************************************************************************)
\* The first name that is routed (a key of the domain map, or matched by a
\* wildcard) on the chain that starts at d and follows the alias edges.
RECURSIVE FirstRoutedFrom(_, _, _, _, _)
FirstRoutedFrom(d, chain, doms, wcs, fuel) ==
    IF d \in DOMAIN doms \/ MatchesWildcard(d, wcs)
      THEN [found |-> TRUE, name |-> d]
    ELSE IF d \in DOMAIN chain /\ fuel > 0
      THEN FirstRoutedFrom(chain[d], chain, doms, wcs, fuel - 1)
    ELSE [found |-> FALSE, name |-> d]

\* The step with which the range body of an owner name ends.
OwnerDone == opc = "walk" /\ opc' = "range"

\* C11: the alias-chain walk attributes the addresses of an owner name to
\* the first name of its chain that is a key of the domain map or matches
\* a wildcard, and discards them only when no name of the chain does.
C11_WalkFindsFirstRouted ==
    [][OwnerDone =>
          LET e == FirstRoutedFrom(owner, cnameChain, domains, wildcards,
                                   Cardinality(DOMAIN cnameChain) + 1)
          IN  IF e.found
                THEN /\ Len(queue') = Len(queue) + 2
                     /\ queue'[Len(queue) + 1].kind = "advertise"
                     /\ queue'[Len(queue) + 1].domain = e.name
                     /\ e.name \in DOMAIN store'.Discovered
                ELSE /\ queue' = queue
                     /\ store' = store]_vars

WellFormed(m) ==
    /\ m.startOk
    /\ m.questionsOk
    /\ \A i \in 1..Len(m.answers) : m.answers[i].hdrOk /\ m.answers[i].bodyOk

\* A step of the observing caller: a step of an observation in progress, or
\* a call that returns at once.
ObserverStep ==
    \/ observerVars' # observerVars
    \/ /\ ncalls' # ncalls
       /\ UNCHANGED <<queueVars, waitVars, drCopy, lastNames>>

\* C12: an observation reaches its matching phase only for a message all of
\* whose sections parse, and no step of its parsing phase, in which a
\* malformed message ends it, changes the domain map, the wildcard list,
\* the operator baseline, the persisted route info, the advertised routes
\* or the queue, takes the mutex or calls a collaborator.
C12_MalformedChangesNothing ==
    /\ [](opc \in {"lock", "range", "walk"} => WellFormed(msg))
    /\ [][(opc \in {"idle", "parse"} /\ ObserverStep) =>
             /\ UNCHANGED <<engineVars, advertiserVars, queueVars, mu>>
             /\ ocalls' = <<>>]_vars

\* The parse of a record fails after a well-formed record gave an address
\* of a configured domain, while nothing else is in progress.
C12_Witness ==
    /\ opc = "parse"
    /\ ~WellFormed(msg)
    /\ off = 2
    /\ ~resHeaderValid
    /\ DOMAIN addressRecords # {}
    /\ DOMAIN addressRecords \subseteq DOMAIN domains
    /\ QueueIdle
    /\ mu = "none"

\* The addresses of the model.
Addrs == 0..(Pow2(AddrBits) - 1)

\* C13: each domain's address sequence is strictly increasing, and the
\* binary search of hasDomainAddrLocked agrees with a linear scan of it.
C13_AddressesSorted ==
    \A d \in DOMAIN domains :
        /\ \A i, j \in 1..Len(domains[d]) :
              i < j => compareAddr(domains[d][i], domains[d][j]) < 0
        /\ \A a \in Addrs :
              hasDomainAddrLocked(domains, d, a) <=> SliceContains(domains[d], a)

\* A domain holds three addresses, which were observed out of order.
C13_Witness ==
    \E d \in DOMAIN domains : Len(domains[d]) >= 3

(***************************************************************************)
(* Properties of the operator route reconciliation.                        *)
(***************************************************************************)
\* The step in which the worker runs updateRoutes.
Reconciles == wpc = "updateRoutes" /\ wpc' = "updateRoutesUnlock"

\* The addresses of the domain map that a prefix of routes subsumes.
SubsumedAddrs(routes, doms) ==
    {a \in HeldAddrs(doms) : \E i \in 1..Len(routes) : Subsumes(routes[i], a)}

AllOk(calls) == \A i \in 1..Len(calls) : calls[i].ok

C16_NoSubsumedRouteRemains ==
    (wpc = "updateRoutesUnlock" /\ lastReconcile = "done" /\ wcalls # <<>>
        /\ nfail = 0) =>
        \A a \in SubsumedAddrs(controlRoutes, domains) :
            SingleRoute(a) \notin advertised

C18_RetryAfterAbort ==
    [][(Reconciles /\ lastReconcile = "aborted") =>
          /\ \E i \in 1..Len(wcalls') : wcalls'[i] = ReadCall
          /\ \E i \in 1..Len(wcalls') :
                /\ wcalls'[i].call = "AdvertiseRoute"
                /\ wcalls'[i].routes = cur.routes]_vars

\* C19: a reconciliation whose prefix sequence equals the baseline element
\* by element calls no collaborator and changes nothing; one whose sequence
\* differs, be it only in the order, reads the store, unadvertises and
\* advertises.
C19_EqualSequenceShortCircuits ==
    [][Reconciles =>
          IF controlRoutes = cur.routes
            THEN /\ wcalls' = <<>>
                 /\ lastReconcile' = "skipped"
                 /\ UNCHANGED <<engineVars, advertiserVars, queueVars, nfail>>
            ELSE /\ Len(wcalls') >= 3
                 /\ wcalls'[1] = ReadCall
                 /\ wcalls'[2].call = "UnadvertiseRoute"
                 /\ wcalls'[3] = Call("AdvertiseRoute", cur.routes,
                                      wcalls'[3].ok)]_vars

\* An update that carries the baseline, which is not empty, has been
\* short-circuited.
C19_Witness ==
    /\ wpc = "updateRoutesUnlock"
    /\ lastReconcile = "skipped"
    /\ wcalls = <<>>
    /\ controlRoutes # <<>>
    /\ controlRoutes = cur.routes

(***************************************************************************)
(* Properties of DomainRoutes.                                             *)
(***************************************************************************)
\* C15: the map DomainRoutes returns holds the engine's addresses, shares
\* no storage with the engine's map, a write of the caller to it leaves
\* the engine's map as it was, and a change of the engine's map leaves it
\* as it was.
C15_DomainRoutesCopies ==
    /\ [](/\ drCopy.backing # "engine"
          /\ \A k \in DOMAIN drCopy.m : drCopy.m[k].backing # "engine")
    /\ [][/\ (~drCopy.taken /\ drCopy'.taken) =>
                /\ DOMAIN drCopy'.m = DOMAIN domains
                /\ \A k \in DOMAIN domains : drCopy'.m[k].addrs = domains[k]
          /\ drCopy' # drCopy => UNCHANGED <<engineVars, advertiserVars>>
          /\ domains' # domains => UNCHANGED drCopy]_vars

\* The caller has overwritten an address of its copy, and the engine's
\* address list for that domain is what it was.
C15_Witness ==
    /\ drCopy.taken
    /\ \E k \in (DOMAIN drCopy.m) \cap (DOMAIN domains) :
          /\ drCopy.m[k].addrs # <<>>
          /\ drCopy.m[k].addrs[1] = CallerAddr
          /\ domains[k] # <<>>
          /\ domains[k][1] # CallerAddr

(***************************************************************************)
(* Properties of the classification of observed addresses.                 *)
(***************************************************************************)
\* isAddrKnownLocked, as a predicate of the state before the classification.
IsKnown(domain, a) ==
    \/ SliceContains(MapGet(domains, domain), a)
    \/ \E i \in 1..Len(controlRoutes) : PrefixContains(controlRoutes[i], a)

\* The single-address routes of the addresses of addrs that are new (new =
\* TRUE) or known (new = FALSE) for the domain, in the order of addrs.
RECURSIVE RoutesOf(_, _, _)
RoutesOf(addrs, domain, new) ==
    IF addrs = <<>> THEN <<>>
    ELSE (IF IsKnown(domain, Head(addrs)) # new
            THEN <<SingleRoute(Head(addrs))>> ELSE <<>>)
         \o RoutesOf(Tail(addrs), domain, new)

\* C20: when an observation matches a routed domain, the advertise task it
\* queues carries the routes of exactly the observed addresses that were
\* not known, in the order observed, and the domain's record in the store
\* holds the routes of all the observed addresses, known or not.
C20_OnlyNewAddressesAdvertised ==
    [][(OwnerDone /\ queue' # queue) =>
          LET t == queue'[Len(queue) + 1]
              addrs == MapGet(addressRecords, owner)
          IN  /\ t.kind = "advertise"
              /\ t.routes = RoutesOf(addrs, t.domain, TRUE)
              /\ \A i \in 1..Len(t.routes) :
                    ~IsKnown(t.domain, t.routes[i].addr)
              /\ ~DiscoveredGet(store'.Discovered, t.domain).isNil
              /\ \A i \in 1..Len(addrs) :
                    SingleRoute(addrs[i]) \in
                        DiscoveredGet(store'.Discovered, t.domain).routes
              /\ ocalls' = ocalls \o <<ReadCall, WriteCall>>]_vars

\* An observation has met a known address and new addresses of a routed
\* domain: the advertise task it queued last carries the new ones only.
C20_Witness ==
    /\ opc = "range"
    /\ ocalls # <<>>
    /\ Len(queue) >= 2
    /\ LET t == queue[Len(queue) - 1]
           addrs == MapGet(addressRecords, owner)
       IN  /\ t.kind = "advertise"
           /\ t.routes # <<>>
           /\ \A i \in 1..Len(t.routes) : SliceContains(addrs, t.routes[i].addr)
           /\ \E i \in 1..Len(addrs) :
                 /\ SingleRoute(addrs[i]) \notin SeqToSet(t.routes)
                 /\ SliceContains(MapGet(domains, t.domain), addrs[i])

(***************************************************************************)
(* Properties of the addresses that an operator prefix covers.             *)
(***************************************************************************)
\* An operator prefix of the baseline contains the address.
Covered(ctrl, a) == \E i \in 1..Len(ctrl) : PrefixContains(ctrl[i], a)

\* The step in which the range body of a routed domain runs.
RoutedOwnerDone == OwnerDone /\ queue' # queue

\* C21: when an observation matches a routed domain, every observed
\* address that is not in the domain's address set and lies in a prefix of
\* the operator baseline is in the domain's address set when the step
\* ends, and the advertise task that the step queues does not carry its
\* single-address route.
C21_CoveredAddressIsKnown ==
    [][RoutedOwnerDone =>
          LET t == queue'[Len(queue) + 1]
              addrs == MapGet(addressRecords, owner)
          IN  \A i \in 1..Len(addrs) :
                 (/\ ~SliceContains(MapGet(domains, t.domain), addrs[i])
                  /\ Covered(controlRoutes, addrs[i]))
                 => /\ SliceContains(MapGet(domains', t.domain), addrs[i])
                    /\ SingleRoute(addrs[i]) \notin SeqToSet(t.routes)
                    /\ mu = "observer"]_vars

\* An observation has met, for a routed domain, an address under an
\* operator prefix whose single-address route was never advertised: the
\* address is in the domain's address set and the queued advertise task
\* carries only the address that no prefix covers.
C21_Witness ==
    /\ opc = "range"
    /\ ocalls # <<>>
    /\ Len(queue) >= 2
    /\ LET t == queue[Len(queue) - 1]
           addrs == MapGet(addressRecords, owner)
       IN  /\ t.kind = "advertise"
           /\ t.routes # <<>>
           /\ \E i \in 1..Len(addrs) :
                 /\ Covered(controlRoutes, addrs[i])
                 /\ SliceContains(MapGet(domains, t.domain), addrs[i])
                 /\ SingleRoute(addrs[i]) \notin SeqToSet(t.routes)
                 /\ SingleRoute(addrs[i]) \notin advertised
                 /\ SingleRoute(addrs[i]) \in
                        DiscoveredGet(store.Discovered, t.domain).routes

(***************************************************************************)
(* Properties of the scheduled advertise and unadvertise tasks.            *)
(***************************************************************************)
\* The addresses of the single-address routes of a task.
SingleAddrs(routes) ==
    {routes[i].addr : i \in {j \in 1..Len(routes) : IsSingleIP(routes[j])}}

\* The collaborator call of a scheduled task returns an error: the task's
\* function returns (lines 488-491 and 510-513).
AdvertiseFails == wpc = "advertise" /\ wpc' = "idle"

UnadvertiseFails == wpc = "unadvertise" /\ wpc' = "idle"

\* The step in which a scheduled task changes the domain map (lines
\* 492-504 and 514-525).
AdvertiseApplies == wpc = "advertiseLock" /\ wpc' = "advertiseUnlock"

UnadvertiseApplies == wpc = "unadvertiseLock" /\ wpc' = "unadvertiseUnlock"

\* C22: a scheduled advertise task changes the domain map only after its
\* AdvertiseRoute call succeeded, and then adds exactly the addresses of
\* its single-address routes to its domain; a scheduled unadvertise task
\* changes it only after its UnadvertiseRoute call succeeded, and then
\* removes them.  A step in which the call fails ends the task and leaves
\* the domain map, the advertised routes and the mutex as they were, so
\* that an address of the task that was not known before is not known
\* after.
C22_ApplyOnlyAfterSuccess ==
    [][/\ (AdvertiseFails \/ UnadvertiseFails) =>
             /\ UNCHANGED <<engineVars, advertised, mu>>
             /\ completed' = completed + 1
             /\ nfail' = nfail + 1
       /\ AdvertiseFails =>
             \A a \in SingleAddrs(cur.routes) :
                 (/\ ~SliceContains(MapGet(domains, cur.domain), a)
                  /\ ~Covered(controlRoutes, a))
                 => /\ ~SliceContains(MapGet(domains', cur.domain), a)
                    /\ ~Covered(controlRoutes', a)
       /\ AdvertiseApplies =>
             /\ wcalls = <<Call("AdvertiseRoute", cur.routes, TRUE)>>
             /\ SeqToSet(cur.routes) \subseteq advertised
             /\ SeqToSet(MapGet(domains', cur.domain)) =
                    SeqToSet(MapGet(domains, cur.domain))
                        \cup SingleAddrs(cur.routes)
       /\ UnadvertiseApplies =>
             /\ wcalls = <<Call("UnadvertiseRoute", cur.routes, TRUE)>>
             /\ SeqToSet(cur.routes) \cap advertised = {}
             /\ SeqToSet(MapGet(domains', cur.domain)) =
                    SeqToSet(MapGet(domains, cur.domain))
                        \ SingleAddrs(cur.routes)
       /\ (wpc \in {"advertise", "unadvertise"} /\ wpc' # wpc) =>
             domains' = domains]_vars

\* The advertisement of the address 2 for a domain failed, the domain's
\* address list stayed empty, and a second observation of the address has
\* queued an advertise task for its route again.
C22_Witness ==
    /\ opc = "range"
    /\ ocalls # <<>>
    /\ nfail = 1
    /\ lastReconcile = "none"
    /\ advertised = {}
    /\ wpc = "idle"
    /\ completed = 3
    /\ submitted = 5
    /\ Len(queue) = 2
    /\ queue[1].kind = "advertise"
    /\ queue[1].routes = <<SingleRoute(2)>>
    /\ queue[2].kind = "unadvertise"
    /\ queue[2].routes = <<>>
    /\ MapGet(domains, queue[1].domain) = <<>>
    /\ DiscoveredGet(store.Discovered, queue[1].domain).routes
           = {SingleRoute(2)}

(***************************************************************************)
(* Properties of the order of the effects of one observation.              *)
(***************************************************************************)
\* C23: the step that runs the range body of a routed domain holds the
\* mutex and does not end the observation; it reads and writes the
\* persisted route info, whose record of the domain then holds the routes
\* of the advertise task; it adds to the end of the queue the advertise
\* task and, behind it, the unadvertise task of the domain; it adds no
\* address of the advertise task to the domain's address set, removes no
\* address of the unadvertise task from it, and advertises nothing.  The
\* queue's worker takes an unadvertise task only after every task before
\* it, the advertise task of its observation included, has completed.
C23_RecordThenAdvertiseThenUnadvertise ==
    [][/\ RoutedOwnerDone =>
             LET n == Len(queue)
                 a == queue'[n + 1]
                 u == queue'[n + 2]
                 rec == DiscoveredGet(store'.Discovered, a.domain)
             IN  /\ mu = "observer" /\ mu' = "observer"
                 /\ opc' = "range"
                 /\ Len(queue') = n + 2
                 /\ a.kind = "advertise" /\ a.id = submitted + 1
                 /\ u.kind = "unadvertise" /\ u.id = submitted + 2
                 /\ u.domain = a.domain
                 /\ ocalls' = ocalls \o <<ReadCall, WriteCall>>
                 /\ ~rec.isNil
                 /\ SeqToSet(a.routes) \subseteq rec.routes
                 /\ advertised' = advertised
                 /\ \A x \in SingleAddrs(a.routes) :
                       ~SliceContains(MapGet(domains', a.domain), x)
                 /\ \A x \in SingleAddrs(u.routes) :
                       SliceContains(MapGet(domains, a.domain), x)
                           => SliceContains(MapGet(domains', a.domain), x)
       /\ (wpc = "idle" /\ wpc' = "advertise") =>
             /\ queue' # <<>>
             /\ Head(queue').kind = "unadvertise"
             /\ Head(queue').id = cur'.id + 1
             /\ Head(queue').domain = cur'.domain
       /\ (wpc = "idle" /\ wpc' = "unadvertise") =>
             /\ cur'.id >= 2
             /\ completed = cur'.id - 1]_vars

\* An observation that holds the mutex has queued, for one domain, an
\* advertise task for a new address and behind it an unadvertise task for
\* stale routes, one of them the route of an address that is still in the
\* domain's address set.
C23_Witness ==
    /\ opc = "range"
    /\ mu = "observer"
    /\ ocalls # <<>>
    /\ Len(queue) >= 2
    /\ LET a == queue[Len(queue) - 1]
           u == queue[Len(queue)]
       IN  /\ a.kind = "advertise" /\ a.routes # <<>>
           /\ u.kind = "unadvertise" /\ u.routes # <<>>
           /\ u.domain = a.domain
           /\ \E x \in SingleAddrs(u.routes) :
                 SliceContains(MapGet(domains, a.domain), x)
           /\ \A x \in SingleAddrs(a.routes) :
                 ~SliceContains(MapGet(domains, a.domain), x)

(***************************************************************************)
(* Properties of an observation that matches no routed domain.             *)
(***************************************************************************)
\* The names that the lookups of cnameChain reach from d.
RECURSIVE ChainNames(_, _, _)
ChainNames(d, chain, fuel) ==
    IF fuel = 0 \/ d \notin DOMAIN chain THEN {d}
    ELSE {d} \cup ChainNames(chain[d], chain, fuel - 1)

\* The name is a key of the domain map or matches a wildcard suffix.
IsRoutedName(d) == d \in DOMAIN domains \/ MatchesWildcard(d, wildcards)

\* No owner name that carries addresses, and no name that the alias
\* lookups reach from it, is routed.
NothingRouted ==
    \A o \in DOMAIN addressRecords :
        \A n \in ChainNames(o, cnameChain, Cardinality(DOMAIN cnameChain) + 1) :
            ~IsRoutedName(n)

\* C24: while an observation is past its parsing phase and no owner name
\* that carries addresses, nor any name on its alias chain, is an exact
\* domain or matches a wildcard suffix, no step of the observation changes
\* the domain map, the wildcard list, the operator baseline, the persisted
\* route info, the advertised routes or the queue, and the observation
\* has called no collaborator.
C24_UnroutedChangesNothing ==
    [][(opc \in {"lock", "range", "walk"} /\ ObserverStep /\ NothingRouted) =>
          /\ UNCHANGED <<engineVars, advertiserVars, queueVars>>
          /\ ocalls = <<>>
          /\ ocalls' = <<>>]_vars

\* With a domain configured, an observation has walked the alias chain of
\* its only owner name, found no name of it routed, and is about to
\* return with nothing written and nothing queued.
C24_Witness ==
    /\ opc = "range"
    /\ mu = "observer"
    /\ todo = {}
    /\ owner \in DOMAIN addressRecords
    /\ owner \in DOMAIN cnameChain
    /\ walk = cnameChain[owner]
    /\ NothingRouted
    /\ DOMAIN domains # {}
    /\ ocalls = <<>>
    /\ QueueIdle
    /\ owner \notin DOMAIN store.Discovered
    /\ walk \notin DOMAIN store.Discovered

(***************************************************************************)
(* Properties of the keys of the domain map across a replacement.          *)
(***************************************************************************)
\* C25: whenever the queue is idle, every key of the domain map is an
\* exact name of the domain list applied last or matches a wildcard suffix
\* of that list.
C25_KeysAreConfiguredWhenIdle ==
    QueueIdle =>
        \A k \in DOMAIN domains :
            \/ k \in ConfiguredExact(lastNames)
            \/ MatchesWildcard(k, ConfiguredWildcards(lastNames))

(***************************************************************************)
(* Properties of the domain map across a reconciliation.                   *)
(***************************************************************************)
\* The single-address routes that a completed reconciliation unadvertised
\* as subsumed (lines 258-273), read from the calls it made.
UnadvertisedAsSubsumed(calls) == IF Len(calls) >= 4 THEN calls[4].routes ELSE <<>>

C27_QueueDrains == (~QueueIdle) ~> QueueIdle

====
